---- MODULE Spec2Model ----
(***************************************************************************)
(* Model of samsoftemuhdrv0.py: the R4300 CPU core, the RDRAM buffer, the  *)
(* ROM loader and the start/stop/reset lifecycle with its background       *)
(* emulation thread.                                                       *)
(*                                                                         *)
(* Numbers.  Python integers are unbounded and the program works with      *)
(* values at and above 2^31 (0x80000000, 0xFFFF0000, sums of them).  A     *)
(* program integer n >= 0 is therefore written as the pair <<h, l>> with   *)
(* n = h * 65536 + l and 0 <= l < 65536.  No operation of the program      *)
(* produces a negative integer.                                            *)
(*                                                                         *)
(* Threads.  Host handlers (menu/toolbar callbacks) run on the Tk thread,  *)
(* one at a time.  Every emulation thread runs emulation_loop and          *)
(* R4300CPU.step.  The interpreter may switch threads between any two      *)
(* bytecodes, so handlers and threads are cut into pieces: a piece makes   *)
(* one read or one write of the state and is one action.                   *)
(***************************************************************************)
EXTENDS Integers, Sequences, FiniteSets, TLC

(* ------------------------------ bounds --------------------------------- *)
\* len(bytearray(0x400000)) scaled down: bytes of RDRAM allocated by Memory()
DramSize == 16
\* rom_offset = 0x1000 scaled down: header bytes skipped by load_rom
RomHeader == 4
\* 93750000 // 60 scaled down: steps per frame in emulation_loop
CyclesPerFrame == 2
\* emulation threads that may exist at once (threading.Thread objects)
MaxThreads == 2
\* the processor is followed while pc - 0x80000000 is below this many bytes
PcCap == 20
\* the RDP is followed until it has rendered this many triangles
MaxTriangles == 12

(* --------------------------- program integers -------------------------- *)
\* the radix of the pair representation, 2^16
Half == 256 * 256

Num(h, l) == <<h + (l \div Half), l % Half>>
Zero == <<0, 0>>
NumOfInt(n) == Num(0, n)
NAdd(a, b) == Num(a[1] + b[1], a[2] + b[2])
NLess(a, b) == a[1] < b[1] \/ (a[1] = b[1] /\ a[2] < b[2])
NLeq(a, b) == a = b \/ NLess(a, b)
\* a + k for an integer k that may be negative (no program value is negative)
NPlusInt(a, k) == Num(a[1], a[2] + k)

\* a - b for a >= b with a difference below 2^31
NDiff(a, b) == (a[1] - b[1]) * Half + (a[2] - b[2])

RECURSIVE BitAnd(_, _)
BitAnd(x, y) ==
    IF x = 0 \/ y = 0 THEN 0
    ELSE (x % 2) * (y % 2) + 2 * BitAnd(x \div 2, y \div 2)

RECURSIVE BitOr(_, _)
BitOr(x, y) ==
    IF x = 0 THEN y
    ELSE IF y = 0 THEN x
    ELSE (IF x % 2 = 1 \/ y % 2 = 1 THEN 1 ELSE 0) + 2 * BitOr(x \div 2, y \div 2)

NAnd(a, b) == <<BitAnd(a[1], b[1]), BitAnd(a[2], b[2])>>
NOr(a, b) == <<BitOr(a[1], b[1]), BitOr(a[2], b[2])>>

\* 0x80000000 and 0x80800000: the address window tested by the CPU
WindowBase == <<32768, 0>>
WindowEnd == <<32896, 0>>

Min(a, b) == IF a < b THEN a ELSE b
Max(a, b) == IF a > b THEN a ELSE b

(* ------------------------- Python slice semantics ---------------------- *)
\* a slice index clipped the way Python clips s[i:j]
SliceIndex(len, i) == IF i < 0 THEN Max(len + i, 0) ELSE Min(i, len)

\* s[a:b]
GetSlice(s, a, b) ==
    LET lo == SliceIndex(Len(s), a)
        hi == SliceIndex(Len(s), b)
    IN IF hi <= lo THEN <<>> ELSE SubSeq(s, lo + 1, hi)

\* s[a:b] = v on a bytearray: the slice is replaced, the length may change
SetSlice(s, a, b, v) ==
    LET lo == SliceIndex(Len(s), a)
        hi == Max(SliceIndex(Len(s), b), lo)
    IN SubSeq(s, 1, lo) \o v \o SubSeq(s, hi + 1, Len(s))

\* struct.unpack('>I', four bytes)[0]
UnpackBE(b) == <<b[1] * 256 + b[2], b[3] * 256 + b[4]>>
\* struct.pack('>I', w) for w < 2^32
PackBE(w) == <<w[1] \div 256, w[1] % 256, w[2] \div 256, w[2] % 256>>

(* ------------------------- instruction encodings ----------------------- *)
EncI(op, rs, rt, imm) == <<op * 1024 + rs * 32 + rt, imm>>
EncR(rs, rt, rd, funct) == <<rs * 32 + rt, rd * 2048 + funct>>
EncJ(op, target) == <<op * 1024 + (target \div Half), target % Half>>

RECURSIVE Flatten(_)
Flatten(words) ==
    IF words = <<>> THEN <<>> ELSE PackBE(Head(words)) \o Flatten(Tail(words))

ZeroBytes(n) == [i \in 1..n |-> 0]

(* ------------------------------ the files ------------------------------ *)
\* the value of current_rom when no ROM is loaded
None == "None"

\* the programs of the ROM files, one instruction word each entry
TinyProgram ==
    << EncI(8, 0, 1, 10) >>      \* ADDI r1, r0, 10

AddiProgram ==
    << EncI(8, 0, 1, 10),        \* ADDI r1, r0, 10
       EncI(8, 1, 2, 65535),     \* ADDI r2, r1, 0xFFFF
       EncI(12, 1, 3, 6),        \* ANDI r3, r1, 6
       EncI(13, 1, 4, 32769) >>  \* ORI  r4, r1, 0x8001

SltProgram ==
    << EncI(8, 0, 1, 65535),     \* ADDI r1, r0, 0xFFFF
       EncR(1, 0, 2, 42),        \* SLT  r2, r1, r0
       EncR(0, 1, 3, 42),        \* SLT  r3, r0, r1
       EncR(1, 1, 4, 32) >>      \* ADD  r4, r1, r1

SumProgram ==
    << EncI(8, 0, 1, 5),         \* ADDI r1, r0, 5
       EncI(8, 0, 2, 3),         \* ADDI r2, r0, 3
       EncR(1, 2, 3, 32),        \* ADD  r3, r1, r2
       EncR(1, 2, 4, 42) >>      \* SLT  r4, r1, r2

LogicProgram ==
    << EncI(8, 0, 1, 5),         \* ADDI r1, r0, 5
       EncI(8, 0, 2, 3),         \* ADDI r2, r0, 3
       EncR(1, 2, 3, 36),        \* AND  r3, r1, r2
       EncR(1, 2, 4, 37) >>      \* OR   r4, r1, r2

ZeroProgram ==
    << EncI(8, 0, 1, 5),         \* ADDI r1, r0, 5
       EncR(1, 1, 0, 32),        \* ADD  r0, r1, r1
       EncI(35, 0, 5, 0) >>      \* LW   r5, 0(r0)

JumpProgram ==
    << EncI(8, 0, 1, 5),         \* ADDI r1, r0, 5
       EncJ(2, 1) >>             \* J    1

LinkProgram ==
    << EncJ(3, 1) >>             \* JAL  1

\* after one ADDI, words that no branch of the decoder handles
OtherProgram ==
    << EncI(8, 0, 1, 10),        \* ADDI r1, r0, 10
       EncR(1, 0, 3, 34),        \* SUB  r3, r1, r0   (funct 0x22)
       EncI(15, 0, 2, 7),        \* LUI  r2, 7        (opcode 0x0F)
       EncI(43, 0, 1, 0) >>      \* SW   r1, 0(r0)    (opcode 0x2B)

\* the files the host can pick in the file dialog; "missing" cannot be opened
FileNames ==
    {"tiny", "addi", "slt", "sum", "logic", "zero", "jump", "link", "other",
     "big", "short", "empty", "missing"}

FileExists(name) == name # "missing"

\* what f.read() returns: a header of RomHeader bytes, then the program;
\* "big" holds more bytes than the memory, "short" fewer than the header
FileData(name) ==
    CASE name = "tiny"  -> ZeroBytes(RomHeader) \o Flatten(TinyProgram)
      [] name = "addi"  -> ZeroBytes(RomHeader) \o Flatten(AddiProgram)
      [] name = "slt"   -> ZeroBytes(RomHeader) \o Flatten(SltProgram)
      [] name = "sum"   -> ZeroBytes(RomHeader) \o Flatten(SumProgram)
      [] name = "logic" -> ZeroBytes(RomHeader) \o Flatten(LogicProgram)
      [] name = "zero"  -> ZeroBytes(RomHeader) \o Flatten(ZeroProgram)
      [] name = "jump"  -> ZeroBytes(RomHeader) \o Flatten(JumpProgram)
      [] name = "link"  -> ZeroBytes(RomHeader) \o Flatten(LinkProgram)
      [] name = "other" -> ZeroBytes(RomHeader) \o Flatten(OtherProgram)
      [] name = "big"   -> ZeroBytes(RomHeader)
                               \o [i \in 1..(DramSize + 4) |-> 1 + (i % 7)]
      [] name = "short" -> ZeroBytes(RomHeader - 1)
      [] OTHER          -> <<>>

(* ------------------------------ R4300CPU -------------------------------- *)
Regs == 0..31

\* [0] * 32
ZeroGpr == [i \in Regs |-> Zero]

\* R4300Registers(gpr=[0] * 32, hi=0, lo=0, pc=0x80000000, next_pc=0)
ResetRegisters ==
    [gpr |-> ZeroGpr, hi |-> Zero, lo |-> Zero, pc |-> WindowBase,
     next_pc |-> Zero]

\* fields of an instruction word
Opcode(instruction) == (instruction[1] \div 1024) % 64
FieldRs(instruction) == (instruction[1] \div 32) % 32
FieldRt(instruction) == instruction[1] % 32
FieldRd(instruction) == (instruction[2] \div 2048) % 32
FieldFunct(instruction) == instruction[2] % 64
FieldImmediate(instruction) == instruction[2]
\* instruction & 0x3FFFFFF, then << 2, as a program integer
TargetShifted(instruction) ==
    Num((instruction[1] % 1024) * 4, instruction[2] * 4)

\* struct.unpack('>I', buffer)[0]: the word, or struct.error when the buffer
\* does not hold exactly four bytes
Unpack(buffer) ==
    [raised |-> Len(buffer) # 4,
     value |-> IF Len(buffer) = 4 THEN UnpackBE(buffer) ELSE Zero]

\* fetch_instruction, with pc the value it read from self.registers.pc, up
\* to "if addr + 4 > len(memory.dram)": TRUE when it goes on to read the
\* buffer, FALSE when it returns 0
fetch_instruction_test(pc, dram) ==
    /\ ~(NLess(pc, WindowBase) \/ NLeq(WindowEnd, pc))
    /\ ~(NDiff(pc, WindowBase) + 4 > Len(dram))

\* fetch_instruction, its last line: the slice of the buffer as it is now,
\* unpacked
fetch_instruction_read(pc, dram) ==
    LET addr == NDiff(pc, WindowBase)
    IN Unpack(GetSlice(dram, addr, addr + 4))

\* What executing an instruction does, once its operands are read: nothing,
\* or self.registers.gpr[reg] = value; raised tells that the statement after
\* it raises an exception.
NoStore == [write |-> FALSE, reg |-> 0, value |-> Zero, raised |-> FALSE]

StoreTo(reg, value) ==
    [write |-> TRUE, reg |-> reg, value |-> value, raised |-> FALSE]

\* execute_r_type, with a and b the values it read from gpr[rs] and gpr[rt]
execute_r_type(instruction, a, b) ==
    LET rd == FieldRd(instruction)
        funct == FieldFunct(instruction)
    IN CASE funct = 32 -> StoreTo(rd, NAdd(a, b))
         [] funct = 36 -> StoreTo(rd, NAnd(a, b))
         [] funct = 37 -> StoreTo(rd, NOr(a, b))
         [] funct = 42 -> StoreTo(rd, IF NLess(a, b) THEN <<0, 1>> ELSE Zero)
         [] OTHER -> NoStore

\* "sign extend": immediate |= 0xFFFF0000 when bit 15 is set
SignExtend(immediate) ==
    IF immediate >= 32768 THEN <<65535, immediate>> ELSE <<0, immediate>>

\* LW: addr = self.registers.gpr[rs] + immediate
LwAddress(instruction, a) ==
    NAdd(a, SignExtend(FieldImmediate(instruction)))

\* LW: 0x80000000 <= addr < 0x80800000
LwInWindow(addr) == NLeq(WindowBase, addr) /\ NLess(addr, WindowEnd)

\* LW: mem_addr + 4 <= len(memory.dram)
LwFits(addr, dram) == NDiff(addr, WindowBase) + 4 <= Len(dram)

\* LW: struct.unpack('>I', memory.dram[mem_addr:mem_addr+4]) on the buffer as
\* it is now
LwRead(addr, dram) ==
    LET mem_addr == NDiff(addr, WindowBase)
    IN Unpack(GetSlice(dram, mem_addr, mem_addr + 4))

\* execute_i_type with a branch for LUI (opcode 0x0F): gpr[rt] = immediate << 16
execute_i_type_with_lui(instruction, opcode, a, loaded) ==
    LET rt == FieldRt(instruction)
        immediate == SignExtend(FieldImmediate(instruction))
    IN CASE opcode = 8  -> StoreTo(rt, NAdd(a, immediate))
         [] opcode = 12 -> StoreTo(rt, NAnd(a, immediate))
         [] opcode = 13 -> StoreTo(rt, NOr(a, immediate))
         [] opcode = 15 -> StoreTo(rt, <<FieldImmediate(instruction), 0>>)
         [] opcode = 35 -> StoreTo(rt, loaded)
         [] OTHER -> NoStore

\* execute_i_type, the assignment it makes: a is the value it read from
\* gpr[rs]; loaded is, for LW, the word it unpacked from the buffer (LW gets
\* here only when its address passed both tests)
execute_i_type(instruction, opcode, a, loaded) ==
    LET rt == FieldRt(instruction)
        immediate == SignExtend(FieldImmediate(instruction))
    IN CASE opcode = 8  -> StoreTo(rt, NAdd(a, immediate))
         [] opcode = 12 -> StoreTo(rt, NAnd(a, immediate))
         [] opcode = 13 -> StoreTo(rt, NOr(a, immediate))
         [] opcode = 35 -> StoreTo(rt, loaded)
         [] OTHER -> NoStore

\* self.registers.next_pc = v: R4300Registers is a namedtuple, so assigning
\* to one of its fields raises AttributeError and stores nothing
set_next_pc(v) == [stored |-> FALSE, raised |-> TRUE]

\* (pc & 0xF0000000) | (target << 2)
JumpTarget(pc, instruction) ==
    NOr(NAnd(pc, <<61440, 0>>), TargetShifted(instruction))

\* execute_j_type, with pc the value it read from self.registers.pc: JAL
\* stores the link, then both J and JAL assign next_pc; an opcode other than
\* 2 and 3 runs neither branch
execute_j_type(instruction, opcode, pc) ==
    IF opcode = 2
    THEN [NoStore EXCEPT
            !.raised = set_next_pc(JumpTarget(pc, instruction)).raised]
    ELSE IF opcode = 3
    THEN [StoreTo(31, NAdd(pc, <<0, 8>>)) EXCEPT
            !.raised = set_next_pc(JumpTarget(pc, instruction)).raised]
    ELSE NoStore

\* execute_instruction: dispatch on the primary opcode; pc, a and b are the
\* values read from self.registers.pc, gpr[rs] and gpr[rt], loaded the word
\* LW read from the buffer
execute_instruction(instruction, pc, a, b, loaded) ==
    LET opcode == Opcode(instruction)
    IN IF opcode = 0
       THEN execute_r_type(instruction, a, b)
       ELSE IF opcode = 2 \/ opcode = 3
       THEN execute_j_type(instruction, opcode, pc)
       ELSE execute_i_type(instruction, opcode, a, loaded)

\* the instructions that read gpr[rt] after gpr[rs]: ADD, AND, OR, SLT
ReadsRt(instruction) ==
    Opcode(instruction) = 0 /\ FieldFunct(instruction) \in {32, 36, 37, 42}

(* ------------------------------- Memory -------------------------------- *)
\* load_rom copying from the start of the file instead of past its header
CopyRomFromStart(dram, data) ==
    IF Len(data) > 0
    THEN LET copy_size == Min(Len(data) - RomHeader, Len(dram) - 0)
         IN SetSlice(dram, 0, 0 + copy_size, GetSlice(data, 0, 0 + copy_size))
    ELSE dram

\* the buffer after load_rom has read data from the file: nothing is copied
\* from an empty file; otherwise dram[0:copy_size] = rom_data[off:off+copy_size]
CopyRom(dram, data) ==
    IF Len(data) > 0
    THEN LET copy_size == Min(Len(data) - RomHeader, Len(dram) - 0)
         IN SetSlice(dram, 0, 0 + copy_size,
                     GetSlice(data, RomHeader, RomHeader + copy_size))
    ELSE dram

\* load_rom returns True unless open() raised
load_rom_ok(filename) == FileExists(filename)

\* the buffer after load_rom(filename)
load_rom(dram, filename) ==
    IF FileExists(filename) THEN CopyRom(dram, FileData(filename)) ELSE dram

\* value & 0xFFFFFFFF (also for a negative value, written <<h, l>> with h < 0)
Mask32(value) == <<value[1] % Half, value[2]>>

\* what Memory.read_word returns for the buffer dram
read_word(dram, address) ==
    IF NLeq(WindowBase, address) /\ NLess(address, WindowEnd)
    THEN LET offset == NDiff(address, WindowBase)
         IN IF offset + 4 <= Len(dram)
            THEN UnpackBE(SubSeq(dram, offset + 1, offset + 4))
            ELSE Zero
    ELSE Zero

\* write_word storing the word with struct.pack('<I', ...), low byte first
write_word_little_endian(dram, address, value) ==
    IF NLeq(WindowBase, address) /\ NLess(address, WindowEnd)
    THEN LET offset == NDiff(address, WindowBase)
             b == PackBE(Mask32(value))
         IN IF offset + 4 <= Len(dram)
            THEN SetSlice(dram, offset, offset + 4, <<b[4], b[3], b[2], b[1]>>)
            ELSE dram
    ELSE dram

\* write_word without "if offset + 4 <= len(self.rdram.dram)"
write_word_no_length_check(dram, address, value) ==
    IF NLeq(WindowBase, address) /\ NLess(address, WindowEnd)
    THEN LET offset == NDiff(address, WindowBase)
         IN SetSlice(dram, offset, offset + 4, PackBE(Mask32(value)))
    ELSE dram

\* the buffer after Memory.write_word
write_word(dram, address, value) ==
    IF NLeq(WindowBase, address) /\ NLess(address, WindowEnd)
    THEN LET offset == NDiff(address, WindowBase)
         IN IF offset + 4 <= Len(dram)
            THEN SetSlice(dram, offset, offset + 4, PackBE(Mask32(value)))
            ELSE dram
    ELSE dram

(* ------------------------------- state ---------------------------------- *)
VARIABLES
    emulation_running,  \* SamsoftN64Emu.emulation_running
    cpu_running,        \* R4300CPU.running
    current_rom,        \* SamsoftN64Emu.current_rom: a file name or None
    registers,          \* R4300CPU.registers, the namedtuple: gpr (which of
                        \* the lists it refers to), hi, lo, pc, next_pc
    lists,              \* the contents of the gpr lists
    dram,               \* Memory.rdram.dram: the bytearray
    host,               \* where the Tk thread stands: idle, or the piece of
                        \* a handler it is about to run, and the file that
                        \* open_rom is loading
    threads,            \* the emulation threads: where each stands (label),
                        \* cycles_executed, and what it has read and not
                        \* yet used
    lastCall,           \* the host handler that returned last and what it
                        \* reported (status text, message box)
    sinceStop,          \* history: steps retired since the last host call
                        \* while emulation_running was False
    memAddress,         \* the address of the last direct Memory call
    memResult,          \* the value the last Memory.read_word call returned
    command_buffer,     \* RDP.command_buffer
    triangles_rendered  \* RDP.triangles_rendered

vars == <<emulation_running, cpu_running, current_rom, registers, lists, dram,
          host, threads, lastCall, sinceStop, memAddress, memResult,
          command_buffer, triangles_rendered>>

\* what the emulator's handlers and threads never touch: the result of a
\* direct Memory call and the state of the RDP
sideVars == <<memAddress, memResult, command_buffer, triangles_rendered>>

Threads == 1..MaxThreads

\* A gpr list lives as long as a register tuple refers to it: the tuple in
\* cpu.registers, or a tuple a thread holds between reading it and assigning
\* its replacement. That makes at most MaxThreads + 1 lists at a time.
ListIds == 0..MaxThreads

\* R4300Registers(gpr=[0] * 32, ...) with the new list stored as list id
ResetTuple(id) == [ResetRegisters EXCEPT !.gpr = id]

\* A thread: pc is the value fetch_instruction read from self.registers.pc,
\* instruction the local of step, operand the value read from gpr[rs],
\* pending the store the instruction is about to make, held the tuple that
\* "Update PC" has read or built.
NoThread ==
    [label |-> "idle", cycles |-> 0, pc |-> Zero, instruction |-> Zero,
     operand |-> Zero, pending |-> NoStore, held |-> ResetTuple(0)]

CrashedThread == [NoThread EXCEPT !.label = "crashed"]

\* a slot is free when no thread runs in it
FreeSlot(thr, t) == thr[t].label \in {"idle", "crashed"}
Alive(t) == ~FreeSlot(threads, t)

\* the lists that the tuples held by threads refer to
HeldIds(thr) ==
    {thr[t].held.gpr :
        t \in {u \in Threads : thr[u].label \in {"replace", "assign"}}}

\* the list a new [0] * 32 becomes
FreshList(thr) ==
    CHOOSE i \in ListIds :
        /\ i \notin HeldIds(thr)
        /\ \A j \in ListIds : j \notin HeldIds(thr) => i <= j

\* garbage collection: a list no tuple refers to is gone
Collect(ls, regs, thr) ==
    [i \in ListIds |->
        IF i = regs.gpr \/ i \in HeldIds(thr) THEN ls[i] ELSE ZeroGpr]

\* cpu.registers with the contents of its gpr list in place of the list
RegisterFile == [registers EXCEPT !.gpr = lists[registers.gpr]]

\* host: the piece the handler on the Tk thread runs next, and the file
\* open_rom is loading
At(piece) == [piece |-> piece, filename |-> None]

\* no handler is running
Idle == At("idle")

Init ==
    /\ emulation_running = FALSE
    /\ cpu_running = FALSE
    /\ current_rom = None
    /\ registers = ResetTuple(0)
    /\ lists = [i \in ListIds |-> ZeroGpr]
    /\ dram = ZeroBytes(DramSize)
    /\ host = Idle
    /\ threads = [t \in Threads |-> NoThread]
    /\ lastCall = "none"
    /\ sinceStop = 0
    /\ memAddress = None
    /\ memResult = Zero
    /\ command_buffer = <<>>
    /\ triangles_rendered = 0

(* --------------------------- host handlers ------------------------------ *)
\* Handlers run on the Tk thread, one at a time. A handler is cut after each
\* write of the state (the two running flags, cpu.registers, the buffer,
\* current_rom, a new thread): the emulation threads run between its writes,
\* the more so as the Tk calls between them release the interpreter lock.

\* R4300CPU.reset: self.registers = R4300Registers(gpr=[0] * 32, ...); it
\* does not assign self.running
cpu_reset ==
    /\ registers' = ResetTuple(FreshList(threads))
    /\ lists' = Collect([lists EXCEPT ![FreshList(threads)] = ZeroGpr],
                        ResetTuple(FreshList(threads)), threads)

\* open_rom with the file dialog returning filename: memory.load_rom;
\* "open:failed" stands for the error box "Failed to load ROM" (a cancelled
\* dialog does nothing and is left out)
open_rom(filename) ==
    /\ host = Idle
    /\ IF load_rom_ok(filename)
       THEN /\ dram' = load_rom(dram, filename)
            /\ host' = [piece |-> "open_rom_current", filename |-> filename]
            /\ UNCHANGED lastCall
       ELSE /\ lastCall' = "open:failed"
            /\ UNCHANGED <<dram, host>>
    /\ sinceStop' = 0
    /\ UNCHANGED <<emulation_running, cpu_running, current_rom, registers,
                   lists, threads>>
    /\ UNCHANGED sideVars

\* open_rom: self.current_rom = filename
open_rom_current ==
    /\ host.piece = "open_rom_current"
    /\ current_rom' = host.filename
    /\ host' = At("open_rom_reset")
    /\ sinceStop' = 0
    /\ UNCHANGED <<emulation_running, cpu_running, registers, lists, dram,
                   threads, lastCall>>
    /\ UNCHANGED sideVars

\* open_rom, its last statement: cpu.reset(); "open:loaded" stands for the
\* status text "Loaded: ..."
open_rom_reset ==
    /\ host = At("open_rom_reset")
    /\ cpu_reset
    /\ host' = Idle
    /\ lastCall' = "open:loaded"
    /\ sinceStop' = 0
    /\ UNCHANGED <<emulation_running, cpu_running, current_rom, dram, threads>>
    /\ UNCHANGED sideVars

\* StartBranch without "if not self.emulation_running": every start with a
\* ROM begins a loop
StartBranchAlwaysStarts(rom, running) ==
    IF rom = None THEN "norom" ELSE "started"

\* StartBranch without "if not self.current_rom": a start without a ROM runs
StartBranchIgnoresRom(rom, running) ==
    IF ~running THEN "started" ELSE "noop"

\* what start_emulation does, from current_rom and emulation_running
StartBranch(rom, running) ==
    IF rom = None THEN "norom"
    ELSE IF ~running THEN "started"
    ELSE "noop"

\* start_emulation up to self.emulation_running = True: "start:norom" stands
\* for the warning box "Please load a ROM first", "start:noop" for a return
\* without any statement run; no more than MaxThreads threads are followed
start_emulation ==
    LET branch == StartBranch(current_rom, emulation_running)
    IN /\ host = Idle
       /\ IF branch = "started"
          THEN /\ \E t \in Threads : FreeSlot(threads, t)
               /\ emulation_running' = TRUE
               /\ host' = At("start_emulation_cpu")
               /\ UNCHANGED lastCall
          ELSE /\ lastCall' = "start:" \o branch
               /\ UNCHANGED <<emulation_running, host>>
       /\ sinceStop' = 0
       /\ UNCHANGED <<cpu_running, current_rom, registers, lists, dram,
                      threads>>
       /\ UNCHANGED sideVars

\* start_emulation: self.cpu.running = True
start_emulation_cpu ==
    /\ host = At("start_emulation_cpu")
    /\ cpu_running' = TRUE
    /\ host' = At("start_emulation_thread")
    /\ sinceStop' = 0
    /\ UNCHANGED <<emulation_running, current_rom, registers, lists, dram,
                   threads, lastCall>>
    /\ UNCHANGED sideVars

\* start_emulation, after the status text "Emulation Running" (for which
\* "start:started" stands): threading.Thread(target=self.emulation_loop)
\* and its start(); the new thread takes the first free slot
start_emulation_thread ==
    /\ host = At("start_emulation_thread")
    /\ \E t \in Threads :
          /\ FreeSlot(threads, t)
          /\ \A u \in Threads : FreeSlot(threads, u) => t <= u
          /\ threads' = [threads EXCEPT ![t] = [NoThread EXCEPT !.label = "outer"]]
    /\ host' = Idle
    /\ lastCall' = "start:started"
    /\ sinceStop' = 0
    /\ UNCHANGED <<emulation_running, cpu_running, current_rom, registers,
                   lists, dram>>
    /\ UNCHANGED sideVars

\* stop_emulation, its first statement: self.emulation_running = False
stop_emulation ==
    /\ host = Idle
    /\ emulation_running' = FALSE
    /\ host' = At("stop_emulation_cpu")
    /\ sinceStop' = 0
    /\ UNCHANGED <<cpu_running, current_rom, registers, lists, dram, threads,
                   lastCall>>
    /\ UNCHANGED sideVars

\* stop_emulation from self.cpu.running = False on
stop_emulation_cpu ==
    /\ host = At("stop_emulation_cpu")
    /\ cpu_running' = FALSE
    /\ host' = Idle
    /\ lastCall' = "stop_emulation"
    /\ sinceStop' = 0
    /\ UNCHANGED <<emulation_running, current_rom, registers, lists, dram,
                   threads>>
    /\ UNCHANGED sideVars

\* close_rom, the first statement of its stop_emulation()
close_rom ==
    /\ host = Idle
    /\ emulation_running' = FALSE
    /\ host' = At("close_rom_cpu")
    /\ sinceStop' = 0
    /\ UNCHANGED <<cpu_running, current_rom, registers, lists, dram, threads,
                   lastCall>>
    /\ UNCHANGED sideVars

\* close_rom, the second statement of its stop_emulation():
\* self.cpu.running = False
close_rom_cpu ==
    /\ host = At("close_rom_cpu")
    /\ cpu_running' = FALSE
    /\ host' = At("close_rom_clear")
    /\ sinceStop' = 0
    /\ UNCHANGED <<emulation_running, current_rom, registers, lists, dram,
                   threads, lastCall>>
    /\ UNCHANGED sideVars

\* close_rom after the status text of stop_emulation(): current_rom = None
close_rom_clear ==
    /\ host = At("close_rom_clear")
    /\ current_rom' = None
    /\ host' = Idle
    /\ lastCall' = "close_rom"
    /\ sinceStop' = 0
    /\ UNCHANGED <<emulation_running, cpu_running, registers, lists, dram,
                   threads>>
    /\ UNCHANGED sideVars

\* reset_system, the first statement of its stop_emulation()
reset_system ==
    /\ host = Idle
    /\ emulation_running' = FALSE
    /\ host' = At("reset_system_cpu")
    /\ sinceStop' = 0
    /\ UNCHANGED <<cpu_running, current_rom, registers, lists, dram, threads,
                   lastCall>>
    /\ UNCHANGED sideVars

\* reset_system, the second statement of its stop_emulation()
reset_system_cpu ==
    /\ host = At("reset_system_cpu")
    /\ cpu_running' = FALSE
    /\ host' = At("reset_system_reset")
    /\ sinceStop' = 0
    /\ UNCHANGED <<emulation_running, current_rom, registers, lists, dram,
                   threads, lastCall>>
    /\ UNCHANGED sideVars

\* reset_system: cpu.reset()
reset_system_reset ==
    /\ host = At("reset_system_reset")
    /\ cpu_reset
    /\ host' = At("reset_system_load")
    /\ sinceStop' = 0
    /\ UNCHANGED <<emulation_running, cpu_running, current_rom, dram, threads,
                   lastCall>>
    /\ UNCHANGED sideVars

\* reset_system, its end: the reload of current_rom
reset_system_load ==
    /\ host = At("reset_system_load")
    /\ dram' = IF current_rom # None THEN load_rom(dram, current_rom) ELSE dram
    /\ host' = Idle
    /\ lastCall' = "reset_system"
    /\ sinceStop' = 0
    /\ UNCHANGED <<emulation_running, cpu_running, current_rom, registers,
                   lists, threads>>
    /\ UNCHANGED sideVars

(* ------------------------- an emulation thread -------------------------- *)
\* The interpreter may switch threads between any two reads or writes of
\* what the threads share (the two running flags, cpu.registers and the
\* lists it refers to, the buffer), and the loop takes no lock. The thread is
\* therefore cut at each of them; each piece is one action.
ThreadVarsOnly ==
    UNCHANGED <<emulation_running, cpu_running, current_rom, registers, lists,
                dram, host, lastCall, sinceStop, memAddress, memResult,
                command_buffer, triangles_rendered>>

\* emulation_loop with "while True:" as its outer loop
LoopOuterForever(t) ==
    /\ threads[t].label = "outer"
    /\ threads' = [threads EXCEPT ![t] = [NoThread EXCEPT !.label = "inner"]]
    /\ ThreadVarsOnly

\* while self.emulation_running: cycles_executed = 0 ... ; or the thread ends
LoopOuter(t) ==
    /\ threads[t].label = "outer"
    /\ threads' = [threads EXCEPT ![t] =
          IF emulation_running
          THEN [NoThread EXCEPT !.label = "inner"]
          ELSE NoThread]
    /\ ThreadVarsOnly

\* while cycles_executed < cycles_per_frame and self.emulation_running
LoopInner(t) ==
    /\ threads[t].label = "inner"
    /\ threads' = [threads EXCEPT ![t] =
          IF threads[t].cycles < CyclesPerFrame /\ emulation_running
          THEN [@ EXCEPT !.label = "step"]
          ELSE [NoThread EXCEPT !.label = "outer"]]
    /\ ThreadVarsOnly

\* The pc has no upper limit in the program. The processor is followed while
\* the pc is less than PcCap bytes past the reset vector: no tuple, assigned
\* or built and about to be assigned, has a pc at or past that.
PcsBelowCap ==
    LET cap == NPlusInt(WindowBase, PcCap)
    IN /\ NLess(registers.pc, cap)
       /\ \A t \in Threads :
             threads[t].label = "assign" => NLess(threads[t].held.pc, cap)

\* step: if not self.running: return (and cycles_executed += 1 in the loop);
\* a step of the running processor is begun only below the cap
StepEnter(t) ==
    /\ threads[t].label = "step"
    /\ cpu_running => PcsBelowCap
    /\ threads' = [threads EXCEPT ![t] =
          IF cpu_running
          THEN [@ EXCEPT !.label = "fetch"]
          ELSE [@ EXCEPT !.label = "inner", !.cycles = @ + 1]]
    /\ ThreadVarsOnly

\* fetch_instruction: addr = self.registers.pc - 0x80000000 (the two range
\* tests before it read the same field)
StepFetch(t) ==
    /\ threads[t].label = "fetch"
    /\ threads' = [threads EXCEPT ![t] =
          [@ EXCEPT !.label = "read", !.pc = registers.pc]]
    /\ ThreadVarsOnly

\* fetch_instruction: the test of addr + 4 against len(memory.dram); when it
\* fails, instruction = 0
StepRead(t) ==
    /\ threads[t].label = "read"
    /\ threads' = [threads EXCEPT ![t] =
          IF fetch_instruction_test(threads[t].pc, dram)
          THEN [@ EXCEPT !.label = "unpack"]
          ELSE [@ EXCEPT !.label = "exec", !.pc = Zero, !.instruction = Zero]]
    /\ ThreadVarsOnly

\* fetch_instruction: the slice memory.dram[addr:addr+4] and struct.unpack;
\* instruction = <the word>, or struct.error ends the thread when the buffer
\* has become shorter since the test
StepUnpack(t) ==
    /\ threads[t].label = "unpack"
    /\ LET word == fetch_instruction_read(threads[t].pc, dram)
       IN threads' = [threads EXCEPT ![t] =
             IF word.raised
             THEN CrashedThread
             ELSE [@ EXCEPT !.label = "exec", !.pc = Zero,
                            !.instruction = word.value]]
    /\ ThreadVarsOnly

\* execute_instruction, the right-hand side of the assignment, one read of
\* what the threads share at a time: at "exec" the first read (gpr[rs], or
\* pc in execute_j_type), at "exec2" the read of gpr[rt] by ADD, AND, OR and
\* SLT, at "test" the read of len(memory.dram) by LW, at "load" the slice of
\* the buffer LW unpacks. Each read takes the tuple and the list
\* cpu.registers refers to, and the buffer, as they are at that moment. J
\* raises at "exec", struct.error at "load" when the buffer has become
\* shorter since "test"; an instruction that no branch handles reads nothing.
StepExecute(t) ==
    /\ threads[t].label \in {"exec", "exec2", "test", "load"}
    /\ LET th == threads[t]
           instruction == th.instruction
           gpr == lists[registers.gpr]
           a == IF th.label = "exec" THEN gpr[FieldRs(instruction)]
                ELSE th.operand
           addr == LwAddress(instruction, a)
           Retiring == [th EXCEPT !.label = "retire", !.instruction = Zero,
                                  !.operand = Zero]
           After(out) ==
               IF out.write
               THEN [th EXCEPT !.label = "store", !.operand = Zero,
                               !.pending = out]
               ELSE IF out.raised THEN CrashedThread
               ELSE Retiring
       IN threads' = [threads EXCEPT ![t] =
             CASE th.label = "exec" ->
                    IF ReadsRt(instruction)
                    THEN [th EXCEPT !.label = "exec2", !.operand = a]
                    ELSE IF Opcode(instruction) = 35
                    THEN IF LwInWindow(addr)
                         THEN [th EXCEPT !.label = "test", !.operand = a]
                         ELSE Retiring
                    ELSE After(execute_instruction(instruction, registers.pc,
                                                   a, Zero, Zero))
               [] th.label = "exec2" ->
                    After(execute_instruction(instruction, registers.pc, a,
                                              gpr[FieldRt(instruction)], Zero))
               [] th.label = "test" ->
                    IF LwFits(addr, dram)
                    THEN [th EXCEPT !.label = "load"]
                    ELSE Retiring
               [] th.label = "load" ->
                    IF LwRead(addr, dram).raised
                    THEN CrashedThread
                    ELSE After(execute_instruction(instruction, registers.pc,
                                   a, Zero, LwRead(addr, dram).value))]
    /\ ThreadVarsOnly

\* execute_instruction, the assignment self.registers.gpr[reg] = value at
\* "store": it stores into the list cpu.registers refers to now. After the
\* store of JAL the assignment to next_pc raises ("raise"), and an exception
\* ends the thread.
StepStore(t) ==
    /\ threads[t].label \in {"store", "raise"}
    /\ LET pending == threads[t].pending
       IN IF threads[t].label = "store"
          THEN /\ lists' = [lists EXCEPT
                               ![registers.gpr][pending.reg] = pending.value]
               /\ threads' = [threads EXCEPT ![t] =
                     IF pending.raised
                     THEN [@ EXCEPT !.label = "raise", !.pending = NoStore]
                     ELSE [@ EXCEPT !.label = "retire", !.instruction = Zero,
                                    !.pending = NoStore]]
          ELSE /\ threads' = [threads EXCEPT ![t] = CrashedThread]
               /\ UNCHANGED lists
    /\ UNCHANGED <<emulation_running, cpu_running, current_rom, registers,
                   dram, host, lastCall, sinceStop>>
    /\ UNCHANGED sideVars

\* "Update PC" advancing the pc by one byte instead of one word
RetiredByOne(regs, now) ==
    IF regs.next_pc # Zero
    THEN [regs EXCEPT !.pc = now.next_pc, !.next_pc = Zero]
    ELSE [regs EXCEPT !.pc = NAdd(now.pc, <<0, 1>>)]

\* the tuple "Update PC" builds: regs is the tuple _replace is called on,
\* which gives every field but pc, the gpr list among them; now is the tuple
\* cpu.registers holds when the argument pc=... is evaluated. (The branch of
\* a pending target is written for completeness: no tuple ever has one.)
Retired(regs, now) ==
    IF regs.next_pc # Zero
    THEN [regs EXCEPT !.pc = now.next_pc, !.next_pc = Zero]
    ELSE [regs EXCEPT !.pc = NAdd(now.pc, <<0, 4>>)]

\* "Update PC": the test of next_pc and self.registers._replace, which read
\* the tuple cpu.registers holds
StepRetire(t) ==
    /\ threads[t].label = "retire"
    /\ threads' = [threads EXCEPT ![t] =
          [@ EXCEPT !.label = "replace", !.held = registers]]
    /\ ThreadVarsOnly

\* "Update PC": the argument pc=self.registers.pc + 4 and the call, which
\* builds the new tuple
StepReplace(t) ==
    /\ threads[t].label = "replace"
    /\ threads' = [threads EXCEPT ![t] =
          [@ EXCEPT !.label = "assign",
                    !.held = Retired(threads[t].held, registers)]]
    /\ ThreadVarsOnly

\* "Update PC": self.registers = <the new tuple>; then cycles_executed += 1
StepAssign(t) ==
    /\ threads[t].label = "assign"
    /\ registers' = threads[t].held
    /\ threads' = [threads EXCEPT ![t] =
          [@ EXCEPT !.label = "inner", !.cycles = @ + 1,
                    !.held = ResetTuple(0)]]
    /\ lists' = Collect(lists, registers', threads')
    /\ sinceStop' = IF emulation_running THEN sinceStop ELSE sinceStop + 1
    /\ UNCHANGED <<emulation_running, cpu_running, current_rom, dram, host,
                   lastCall>>
    /\ UNCHANGED sideVars

(* ------------------------- direct Memory calls -------------------------- *)
\* Nothing in the emulator calls Memory.read_word or Memory.write_word; these
\* two actions are a caller of the Memory object using them directly.
call_write_word(address, value) ==
    /\ host = Idle
    /\ dram' = write_word(dram, address, value)
    /\ lastCall' = "write_word"
    /\ memAddress' = address
    /\ UNCHANGED <<emulation_running, cpu_running, current_rom, registers,
                   lists, host, threads, sinceStop>>
    /\ UNCHANGED <<memResult, command_buffer, triangles_rendered>>

call_read_word(address) ==
    /\ host = Idle
    /\ memResult' = read_word(dram, address)
    /\ lastCall' = "read_word"
    /\ memAddress' = address
    /\ UNCHANGED <<emulation_running, cpu_running, current_rom, registers,
                   lists, dram, host, threads, sinceStop>>
    /\ UNCHANGED <<command_buffer, triangles_rendered>>

(* --------------------------------- RDP ---------------------------------- *)
\* (command_high >> 24) & 0x3F
CommandType(command_high) == (command_high[1] \div 256) % 64

\* self.triangles_rendered += 1
render_triangle(rendered) == rendered + 1

\* execute_rdp_command testing command_high >> 24 without "& 0x3F"
execute_rdp_command_no_mask(command_high, command_low, rendered) ==
    LET command_type == command_high[1] \div 256
    IN IF 8 <= command_type /\ command_type <= 15
       THEN render_triangle(rendered)
       ELSE rendered

\* triangles_rendered after execute_rdp_command
execute_rdp_command(command_high, command_low, rendered) ==
    LET command_type == CommandType(command_high)
    IN IF 8 <= command_type /\ command_type <= 15
       THEN render_triangle(rendered)
       ELSE rendered

\* Nothing in the emulator calls RDP.process_command; this action is a
\* caller of the RDP object submitting one word.
process_command(command) ==
    /\ triangles_rendered < MaxTriangles
    /\ LET buffer == Append(command_buffer, command)
       IN IF Len(buffer) >= 2
          THEN /\ triangles_rendered' =
                      execute_rdp_command(buffer[1], buffer[2],
                                          triangles_rendered)
               /\ command_buffer' = <<>>
          ELSE /\ command_buffer' = buffer
               /\ UNCHANGED triangles_rendered
    /\ UNCHANGED <<emulation_running, cpu_running, current_rom, registers,
                   lists, dram, host, threads, lastCall, sinceStop,
                   memAddress, memResult>>

(* --------------------------- specifications ---------------------------- *)
\* every piece of an emulation thread
ThreadStep(t) ==
    \/ LoopOuter(t)
    \/ LoopInner(t)
    \/ StepEnter(t)
    \/ StepFetch(t)
    \/ StepRead(t)
    \/ StepUnpack(t)
    \/ StepExecute(t)
    \/ StepStore(t)
    \/ StepRetire(t)
    \/ StepReplace(t)
    \/ StepAssign(t)

\* The lifecycle with a hasty host: it opens, starts, stops and resets at any
\* time, the emulation threads interleave with it and with each other, and a
\* start after a stop may come while loops of earlier starts are still alive.
HostFiles == {"tiny"}

Next ==
    \/ \E f \in HostFiles : open_rom(f)
    \/ open_rom_current
    \/ open_rom_reset
    \/ start_emulation
    \/ start_emulation_cpu
    \/ start_emulation_thread
    \/ stop_emulation
    \/ stop_emulation_cpu
    \/ reset_system
    \/ reset_system_cpu
    \/ reset_system_reset
    \/ reset_system_load
    \/ \E t \in Threads : ThreadStep(t)

Spec == Init /\ [][Next]_vars

\* a ROM is loaded and the emulation is stopped: the host may start it
Startable == current_rom # None /\ ~emulation_running

\* The lifecycle with a patient host: any handler at any time, on a ROM that
\* runs on, a ROM that starts with a jump and a file shorter than the header
\* (which shrinks the buffer under a running loop), but a loop is begun only
\* once the loop of the start before has ended, so that one loop runs at a
\* time.
PatientFiles == {"tiny", "link", "short"}

NextPatient ==
    \/ \E f \in PatientFiles : open_rom(f)
    \/ open_rom_current
    \/ open_rom_reset
    \/ close_rom
    \/ close_rom_cpu
    \/ close_rom_clear
    \/ (Startable => \A t \in Threads : ~Alive(t)) /\ start_emulation
    \/ start_emulation_cpu
    \/ start_emulation_thread
    \/ stop_emulation
    \/ stop_emulation_cpu
    \/ reset_system
    \/ reset_system_cpu
    \/ reset_system_reset
    \/ reset_system_load
    \/ \E t \in Threads : ThreadStep(t)

SpecPatient == Init /\ [][NextPatient]_vars

\* The scheduler keeps the threads running: a thread that can take its next
\* piece of the loop eventually takes it. The host is under no obligation to
\* call anything.
ThreadFairness ==
    \A t \in Threads :
        /\ WF_vars(LoopOuter(t))
        /\ WF_vars(LoopInner(t))
        /\ WF_vars(StepEnter(t))
        /\ WF_vars(StepFetch(t))
        /\ WF_vars(StepRead(t))
        /\ WF_vars(StepUnpack(t))
        /\ WF_vars(StepExecute(t))
        /\ WF_vars(StepStore(t))
        /\ WF_vars(StepRetire(t))
        /\ WF_vars(StepReplace(t))
        /\ WF_vars(StepAssign(t))

\* the lifecycle with a patient host under this scheduler
FairSpec == Init /\ [][NextPatient]_vars /\ ThreadFairness

\* The processor: the host opens one of the programs and starts it once; the
\* emulation thread then runs it undisturbed.
CpuFiles == {"addi", "slt", "sum", "logic", "zero", "jump", "link", "other"}

NextCpu ==
    \/ lastCall = "none" /\ \E f \in CpuFiles : open_rom(f)
    \/ open_rom_current
    \/ open_rom_reset
    \/ lastCall = "open:loaded" /\ start_emulation
    \/ start_emulation_cpu
    \/ start_emulation_thread
    \/ \E t \in Threads : ThreadStep(t)

SpecCpu == Init /\ [][NextCpu]_vars

\* The memory words: a caller reads and writes words at addresses inside,
\* across the end of, and outside the buffer, before or after a ROM that
\* fills the whole buffer is opened.
MemFiles == {"big"}

MemAddresses ==
    {Zero, NPlusInt(WindowBase, -4), WindowBase, NPlusInt(WindowBase, 1),
     NPlusInt(WindowBase, DramSize - 4), NPlusInt(WindowBase, DramSize - 3),
     NPlusInt(WindowBase, DramSize), NPlusInt(WindowEnd, -4), WindowEnd}

\* 0x01020304, 0x1ABCDCDEF (wider than a word) and -1
MemValues == {<<258, 772>>, <<109517, 52719>>, <<-1, 65535>>}

NextMem ==
    \/ \E f \in MemFiles : open_rom(f)
    \/ open_rom_current
    \/ open_rom_reset
    \/ \E a \in MemAddresses, v \in MemValues : call_write_word(a, v)
    \/ \E a \in MemAddresses : call_read_word(a)

SpecMem == Init /\ [][NextMem]_vars

\* The loader: a caller opens images of every kind (longer than the memory,
\* a short program, shorter than the header, empty, unreadable), resets,
\* closes, and writes a word to the end of the memory in between.
LoadFiles == {"tiny", "big", "short", "empty", "missing"}

LoadAddresses == {NPlusInt(WindowBase, DramSize - 4)}

LoadValues == {<<258, 772>>}

NextLoad ==
    \/ \E f \in LoadFiles : open_rom(f)
    \/ open_rom_current
    \/ open_rom_reset
    \/ close_rom
    \/ close_rom_cpu
    \/ close_rom_clear
    \/ reset_system
    \/ reset_system_cpu
    \/ reset_system_reset
    \/ reset_system_load
    \/ \E a \in LoadAddresses, v \in LoadValues : call_write_word(a, v)

SpecLoad == Init /\ [][NextLoad]_vars

\* The RDP: a caller submits words whose bits [29:24] lie below, inside and
\* above 0x08..0x0F, with and without bits above bit 29.
RdpWords ==
    {Zero, <<7 * 256, 0>>, <<8 * 256, 0>>, <<15 * 256 + 255, 65535>>,
     <<16 * 256, 0>>, <<63 * 256, 0>>, <<72 * 256, 1>>, <<208 * 256, 0>>,
     <<Half + 9 * 256, 0>>}

NextRdp == \E w \in RdpWords : process_command(w)

SpecRdp == Init /\ [][NextRdp]_vars

(* ------------------------------ properties ------------------------------ *)
\* the low 32 bits of a read as a two's complement value: its upper half
SignedUpper(a) ==
    LET u == a[1] % Half IN IF u >= 32768 THEN u - Half ELSE u

\* a < b when both are read as 32-bit signed integers
SignedLess(a, b) ==
    \/ SignedUpper(a) < SignedUpper(b)
    \/ SignedUpper(a) = SignedUpper(b) /\ a[2] < b[2]

AliveThreads == {t \in Threads : Alive(t)}

\* C1: start_emulation called while emulation_running is already True returns
\* at once: it creates no thread and leaves both running flags, the
\* registers, the memory and the loaded ROM as they were.
C1_StartWhileRunningIsNoop ==
    [][(start_emulation /\ emulation_running)
         => /\ host' = Idle
            /\ UNCHANGED <<threads, emulation_running, cpu_running, registers,
                           lists, dram, current_rom>>]_vars

\* a start has just returned as a no-op while a loop was running
C1_Witness ==
    /\ lastCall = "start:noop"
    /\ emulation_running /\ cpu_running
    /\ AliveThreads # {}

\* C2: once stop_emulation has returned, at most one step (the one in flight)
\* retires before the next host call.
C2_AtMostOneStepAfterStop ==
    lastCall = "stop_emulation" => sinceStop <= 1

\* C3: start_emulation without a loaded ROM reports "start:norom" and
\* returns, leaving the processor halted and creating no thread; with a ROM
\* it leaves the emulation running, and when the emulation was stopped it
\* goes on to set the processor running and then to create the loop thread.
C3_StartNeedsRom ==
    [][/\ start_emulation =>
            IF current_rom = None
            THEN /\ lastCall' = "start:norom"
                 /\ host' = Idle
                 /\ ~cpu_running' /\ ~emulation_running'
                 /\ UNCHANGED <<threads, registers, lists, dram>>
            ELSE /\ emulation_running'
                 /\ IF emulation_running
                    THEN cpu_running' /\ host' = Idle
                    ELSE host' = At("start_emulation_cpu")
       /\ start_emulation_cpu =>
            /\ cpu_running' /\ emulation_running'
            /\ host' = At("start_emulation_thread")
       /\ start_emulation_thread =>
            /\ cpu_running' /\ emulation_running'
            /\ lastCall' = "start:started"
            /\ host' = Idle
            /\ \E t \in Threads :
                  ~Alive(t) /\ threads'[t].label = "outer"]_vars

\* a start has just put the processor in the running state again, with a new
\* loop, on a ROM of which an earlier loop has retired two steps
C3_Witness ==
    /\ lastCall = "start:started"
    /\ cpu_running /\ emulation_running
    /\ current_rom = "tiny"
    /\ registers.pc = NPlusInt(WindowBase, 8)
    /\ \E t \in Threads : threads[t].label = "outer"

\* C4: while reset_system is the last host call, the processor is halted and
\* holds the reset layout.
C4_ResetLayoutHolds ==
    lastCall = "reset_system" => ~cpu_running /\ RegisterFile = ResetRegisters

\* C5: no step raises: no emulation thread is ended by an instruction.
C5_NoStepRaises ==
    \A t \in Threads : threads[t].label # "crashed"

\* C6: executing J sets the pending target (pc & 0xF0000000) | (t << 2) and
\* the step goes on to retire it.
C6_JumpSetsTarget ==
    [][\A t \in Threads :
         (StepExecute(t) /\ Opcode(threads[t].instruction) = 2) =>
            /\ registers'.next_pc =
                  JumpTarget(registers.pc, threads[t].instruction)
            /\ threads'[t].label = "retire"]_vars

\* C7: executing JAL writes pc + 8 into register 31 and sets the pending
\* target (pc & 0xF0000000) | (t << 2).
C7_JalLinksAndJumps ==
    [][\A t \in Threads :
         (StepStore(t) /\ Opcode(threads[t].instruction) = 3) =>
            /\ RegisterFile'.gpr[31] = NAdd(registers.pc, <<0, 8>>)
            /\ registers'.next_pc =
                  JumpTarget(registers.pc, threads[t].instruction)]_vars

\* C8: general-purpose register 0 always reads as 0.
C8_RegisterZeroIsZero ==
    RegisterFile.gpr[0] = Zero

\* C9: ADDI writes rs plus the immediate read as a signed 16-bit value into
\* rt: immediate - 65536 is added when bit 15 of the immediate is set.
C9_AddiSignExtends ==
    [][\A t \in Threads :
         (StepStore(t) /\ Opcode(threads[t].instruction) = 8) =>
            LET instruction == threads[t].instruction
                imm == FieldImmediate(instruction)
                signed == IF imm >= 32768 THEN imm - 65536 ELSE imm
            IN RegisterFile'.gpr[FieldRt(instruction)] =
                  NPlusInt(RegisterFile.gpr[FieldRs(instruction)], signed)]_vars

\* C10: ADD, AND, OR write rs+rt, rs&rt, rs|rt into rd, and SLT writes 1 when
\* rs < rt as 32-bit signed integers and 0 otherwise.
C10_RTypeSigned ==
    [][\A t \in Threads :
         (StepStore(t) /\ Opcode(threads[t].instruction) = 0) =>
            LET instruction == threads[t].instruction
                a == RegisterFile.gpr[FieldRs(instruction)]
                b == RegisterFile.gpr[FieldRt(instruction)]
                d == RegisterFile'.gpr[FieldRd(instruction)]
                funct == FieldFunct(instruction)
            IN /\ funct = 32 => d = NAdd(a, b)
               /\ funct = 36 => d = NAnd(a, b)
               /\ funct = 37 => d = NOr(a, b)
               /\ funct = 42 => d = IF SignedLess(a, b) THEN <<0, 1>> ELSE Zero]_vars

\* the addresses a with BASE <= a and a + 4 <= BASE + (size of the buffer)
InBuffer(a) ==
    /\ NLeq(WindowBase, a)
    /\ NLeq(NPlusInt(a, 4), NPlusInt(WindowBase, Len(dram)))

\* C11: a word written at an address whose four bytes lie inside the buffer
\* is read back from that address as the written value modulo 2^32.
C11_WriteThenReadRoundTrip ==
    [][\A a \in MemAddresses, v \in MemValues :
          (InBuffer(a) /\ call_write_word(a, v))
              => read_word(dram', a) = Mask32(v)]_vars

\* a word wider than 32 bits has been written at BASE + 1 and reads back
\* truncated, after a read of it
C11_Witness ==
    /\ lastCall = "read_word"
    /\ memAddress = NPlusInt(WindowBase, 1)
    /\ memResult = <<43981, 52719>>
    /\ read_word(dram, NPlusInt(WindowBase, 1)) = <<43981, 52719>>
    /\ read_word(dram, WindowBase) # <<43981, 52719>>

\* the addresses outside [BASE, BASE + (size of the buffer))
OutsideBuffer(a) ==
    \/ NLess(a, WindowBase)
    \/ NLeq(NPlusInt(WindowBase, Len(dram)), a)

\* C12: at an address outside the mapped window a read returns 0 and a
\* write leaves every byte of the memory as it was.
C12_OutsideWindowIgnored ==
    [][\A a \in MemAddresses :
          OutsideBuffer(a) =>
              /\ call_read_word(a) => memResult' = Zero
              /\ \A v \in MemValues : call_write_word(a, v) => dram' = dram]_vars

\* the last call wrote at the first address past a buffer that holds the
\* bytes of the ROM and an earlier written word, and an earlier read of 0
C12_Witness ==
    /\ lastCall = "write_word"
    /\ memAddress = NPlusInt(WindowBase, Len(dram))
    /\ memResult = Zero
    /\ current_rom = "big"
    /\ read_word(dram, WindowBase) = <<258, 772>>
    /\ dram[Len(dram)] # 0

\* the addresses inside the window whose offset from BASE is no multiple of 4
Misaligned(a) ==
    /\ NLeq(WindowBase, a)
    /\ NLess(a, WindowEnd)
    /\ NDiff(a, WindowBase) % 4 # 0

\* C13: a read at an address inside the window whose offset is not a
\* multiple of 4 returns 0.
C13_MisalignedReadsZero ==
    [][\A a \in MemAddresses :
          (Misaligned(a) /\ call_read_word(a)) => memResult' = Zero]_vars

\* C14: loading an empty image fails and is reported as a failure at once,
\* and it leaves the memory and the record of the loaded image as they were.
C14_EmptyImageRejected ==
    [][open_rom("empty") =>
          /\ host' = Idle
          /\ lastCall' = "open:failed"
          /\ dram' = dram
          /\ current_rom' = current_rom]_vars

\* this step copies the first n = min(Len(data) - header, size of the buffer)
\* bytes that follow the header of data to the offsets [0, n) of the memory
\* and changes no other byte
CopiesBody(data) ==
    LET n == Min(Len(data) - RomHeader, Len(dram))
    IN /\ Len(dram') = Len(dram)
       /\ \A i \in 1..Len(dram) :
              dram'[i] = IF i <= n THEN data[RomHeader + i] ELSE dram[i]

\* C15: loading an image longer than the header, by opening it or by the
\* reload of a reset, copies exactly the first min(length - header, memory
\* size) bytes after the header to the start of the memory and leaves the
\* bytes behind them unchanged.
C15_LoadCopiesBody ==
    [][/\ \A f \in LoadFiles :
             (Len(FileData(f)) > RomHeader /\ open_rom(f))
                 => CopiesBody(FileData(f))
       /\ (/\ reset_system_load
           /\ current_rom # None
           /\ Len(FileData(current_rom)) > RomHeader)
              => CopiesBody(FileData(current_rom))]_vars

\* the short program has been opened over the image that fills the memory:
\* its words lie at the start, the bytes of the larger image behind them
C15_Witness ==
    /\ lastCall = "open:loaded"
    /\ current_rom = "tiny"
    /\ Len(dram) = DramSize
    /\ Len(FileData("tiny")) - RomHeader < DramSize
    /\ \A i \in 1..DramSize :
           dram[i] = IF i <= Len(FileData("tiny")) - RomHeader
                     THEN FileData("tiny")[RomHeader + i]
                     ELSE FileData("big")[RomHeader + i]

\* C18: the memory buffer keeps the length it was constructed with.
C18_BufferKeepsLength == Len(dram) = DramSize

\* the word completes a pair whose first word has bits [29:24] in 0x08..0x0F
CompletesPrimitive ==
    /\ Len(command_buffer) = 1
    /\ (command_buffer[1][1] \div 256) % 64 \in 8..15

\* C16: between submits the queue holds at most one word, and a submit adds
\* exactly 1 to the primitive counter when it completes a pair whose first
\* word has bits [29:24] in 0x08..0x0F and leaves the counter unchanged
\* otherwise.
C16_QueueAndCounter ==
    [][/\ Len(command_buffer) <= 1
       /\ Len(command_buffer') <= 1
       /\ triangles_rendered' >= triangles_rendered
       /\ \A w \in RdpWords :
             process_command(w) =>
                 triangles_rendered' =
                     triangles_rendered + (IF CompletesPrimitive THEN 1 ELSE 0)]_vars

\* two primitives have been counted and the first word of a pair that is
\* none waits in the queue
C16_Witness ==
    /\ triangles_rendered = 2
    /\ command_buffer = <<<<16 * 256, 0>>>>

\* C17: at most one emulation loop is alive at any time.
C17_AtMostOneLoop == Cardinality(AliveThreads) <= 1

\* C19: every handler that resets the processor, in whichever state the
\* processor is, leaves it halted with all registers zero, pc at the reset
\* vector and no pending target.
C19_ResetHalts ==
    [][(open_rom_reset \/ reset_system_reset)
          => (~cpu_running' /\ RegisterFile' = ResetRegisters)]_vars

\* C20: whenever the processor is running, pc is a multiple of 4.
C20_RunningPcAligned == cpu_running => registers.pc[2] % 4 = 0

\* the processor is running and its loop has retired the steps of the
\* program since the last reset
C20_Witness ==
    /\ cpu_running
    /\ registers.pc = NPlusInt(WindowBase, 8)
    /\ RegisterFile.gpr[1] = <<0, 10>>
    /\ AliveThreads # {}

\* the words the decoder handles: ADD, AND, OR, SLT, ADDI, ANDI, ORI, LW, J, JAL
Recognized(instruction) ==
    \/ Opcode(instruction) = 0 /\ FieldFunct(instruction) \in {32, 36, 37, 42}
    \/ Opcode(instruction) \in {2, 3, 8, 12, 13, 35}

\* the four bytes at pc do not all lie inside the memory
PcOutsideMemory ==
    \/ NLess(registers.pc, WindowBase)
    \/ NLess(NPlusInt(WindowBase, Len(dram)), NPlusInt(registers.pc, 4))

\* the word at pc when pc lies inside the memory
WordAtPc ==
    LET offset == NDiff(registers.pc, WindowBase)
    IN UnpackBE(SubSeq(dram, offset + 1, offset + 4))

\* the step at this pc is one the processor ignores
IgnoredStep == PcOutsideMemory \/ ~Recognized(WordAtPc)

\* the pieces of a step from the fetch up to the new tuple
BeforeAssign(t) ==
    \/ StepFetch(t)
    \/ StepRead(t)
    \/ StepUnpack(t)
    \/ StepExecute(t)
    \/ StepStore(t)
    \/ StepRetire(t)
    \/ StepReplace(t)

\* C21: a step of the running processor whose pc lies outside the memory or
\* whose word is none of the ten handled instructions raises nothing and
\* changes nothing but pc, which advances by 4: the registers, hi, lo,
\* next_pc and the memory stay as they were.
C21_IgnoredStepOnlyAdvancesPc ==
    [][\A t \in Threads :
         IgnoredStep =>
            /\ BeforeAssign(t) =>
                  /\ RegisterFile' = RegisterFile
                  /\ dram' = dram
                  /\ threads'[t].label \notin {"store", "crashed"}
            /\ StepAssign(t) =>
                  /\ RegisterFile' =
                        [RegisterFile EXCEPT !.pc = NPlusInt(registers.pc, 4)]
                  /\ dram' = dram]_vars

\* the program of ignored words has been stepped through and past the end of
\* the memory: only the register its ADDI wrote is set
C21_Witness ==
    /\ current_rom = "other"
    /\ cpu_running
    /\ NLess(NPlusInt(WindowBase, DramSize), registers.pc)
    /\ RegisterFile.gpr = [ZeroGpr EXCEPT ![1] = <<0, 10>>]
    /\ registers.next_pc = Zero

\* C22: once stop_emulation has been called, every emulation loop eventually
\* exits unless the emulation is started again.
C22_LoopExitsAfterStop ==
    (lastCall = "stop_emulation") ~> (AliveThreads = {} \/ emulation_running)

\* stop_emulation has just been called while a loop is inside a step in the
\* middle of its frame
C22_Witness ==
    /\ lastCall = "stop_emulation"
    /\ ~emulation_running
    /\ \E t \in Threads : threads[t].label = "retire" /\ threads[t].cycles = 1
====
